---------------------------- MODULE Spec2Model ----------------------------
(***************************************************************************)
(* Model of the synthetic IoT record generator (src/hmmr/generate_data.py):*)
(* generate_patient_id, generate_device_id, random_timestamp,              *)
(* calculate_data_size, generate_data (field sampler and shrink loop),     *)
(* generate_record and the loop of main.                                   *)
(*                                                                         *)
(* Python strings are sequences of one-character strings; the degree sign  *)
(* of the temperature field is the character "deg".  A payload value       *)
(* carries its Python type: [type |-> "str", v |-> <<chars>>] or           *)
(* [type |-> "int", v |-> n].  Times are whole seconds plus microseconds.  *)
(***************************************************************************)
EXTENDS Integers, Sequences, FiniteSets, TLC

VARIABLES
    pc,            \* position: main, call, sample, test, body, done, exit, finished
    idx,           \* generate_record argument i (main's loop variable)
    T,             \* generate_record argument target_size
    patient_id,    \* record["patient_id"]
    device_id,     \* record["device_id"]
    now,           \* random_timestamp: datetime.now(), [sec, usec]
    delta,         \* random_timestamp: the timedelta, in seconds
    timestamp,     \* record["timestamp"]
    target_size,   \* generate_data argument
    data,          \* generate_data local: the payload dict
    sampled,       \* the payload as sampled at lines 35-57 (history)
    current_size,  \* generate_data local
    record,        \* the value generate_record returned, <<>> before it returns
    num_records,   \* main: int(sys.argv[1])
    records,       \* main: the list of records
    call,          \* replay harness: which of the two seeded calls runs
    tape,          \* replay harness: the draws of the seeded generator
    reads          \* replay harness: the clock value each call read (history)

vars == <<pc, idx, T, patient_id, device_id, now, delta, timestamp, target_size,
          data, sampled, current_size, record, num_records, records, call,
          tape, reads>>

---------------------------------------------------------------------------
(* Bounds of the model *)

\* Largest distance between the sampled payload's size and the target.
MaxGap == 4
\* The shrink loop may drive steps down to -NegCap; the code has no floor.
NegCap == 10
\* Largest num_records given to main.
MaxRecords == 2

---------------------------------------------------------------------------
(* Program constants *)

DefaultTarget == 870
PadWidth == 5
DeviceLo == 10000
DeviceHi == 99999
DaysHi == 30
HoursHi == 23
MinutesHi == 59
SecondsHi == 59
StepsLo == 1000
StepsHi == 10000

---------------------------------------------------------------------------
(* Text helpers *)

DigitChars == <<"0", "1", "2", "3", "4", "5", "6", "7", "8", "9">>

RECURSIVE Digits(_)
\* str(n) for n >= 0
Digits(n) ==
    IF n < 10 THEN <<DigitChars[n + 1]>>
    ELSE Digits(n \div 10) \o <<DigitChars[(n % 10) + 1]>>

\* str(n) / json's rendering of an int
IntStr(n) == IF n < 0 THEN <<"-">> \o Digits(-n) ELSE Digits(n)

RECURSIVE Zeros(_)
Zeros(k) == IF k <= 0 THEN <<>> ELSE <<"0">> \o Zeros(k - 1)

\* format(n, "05d"): sign first, then zeros up to a total width of 5
ZeroPad(n) ==
    LET body == Digits(IF n < 0 THEN -n ELSE n)
        sign == IF n < 0 THEN <<"-">> ELSE <<>>
    IN  sign \o Zeros(PadWidth - Len(sign) - Len(body)) \o body

StrVal(s) == [type |-> "str", v |-> s]
IntVal(n) == [type |-> "int", v |-> n]

---------------------------------------------------------------------------
(* generate_patient_id, generate_device_id, random_timestamp *)

\* Faulty variant of the identifier: numbered from zero.
generate_patient_id_ZeroBased(i) == <<"P">> \o ZeroPad(i - 1)

generate_patient_id(i) == <<"P">> \o ZeroPad(i)

\* dev is the value drawn by random.randint(10000, 99999)
generate_device_id(dev) == <<"D">> \o Digits(dev)

\* timedelta(days, hours, minutes, seconds), normalised to seconds
timedelta(d, h, m, s) == d * 86400 + h * 3600 + m * 60 + s

\* Faulty variant of the rendering: rounded to the nearest second, not cut.
strftime_Rounded(t) == t.sec + (IF t.usec >= 500000 THEN 1 ELSE 0)

\* ts.strftime("%Y-%m-%dT%H:%M:%S"): the calendar rendering is one-to-one on
\* whole seconds, so it is kept as the second count; microseconds are dropped.
strftime(t) == t.sec

\* now - delta, then the rendering; delta is a whole number of seconds
random_timestamp(n, dl) == strftime([sec |-> n.sec - dl, usec |-> n.usec])

---------------------------------------------------------------------------
(* calculate_data_size: len(json.dumps(record_data).encode('utf-8')) *)

\* dict insertion order of lines 47-57
Keys == <<"heart_rate", "blood_pressure", "oxygen_saturation",
          "respiratory_rate", "steps", "activity_level", "sleep_duration",
          "glucose_level", "temperature">>

KeySet == {Keys[n] : n \in 1..Len(Keys)}

\* json.dumps escapes with ensure_ascii: a non-ASCII character becomes \uXXXX
\* (6 bytes), a quote or a backslash 2 bytes, any other character of the
\* payload 1 byte.
EscapedLen(c) ==
    IF c = "deg" THEN 6
    ELSE IF c \in {"\"", "\\"} THEN 2
    ELSE 1

RECURSIVE JsonStrLen(_)
\* bytes of the characters of a JSON string, without its quotes
JsonStrLen(s) ==
    IF s = <<>> THEN 0 ELSE EscapedLen(Head(s)) + JsonStrLen(Tail(s))

\* bytes of one JSON value
JsonValueLen(val) ==
    IF val.type = "str" THEN 2 + JsonStrLen(val.v) ELSE Len(IntStr(val.v))

RECURSIVE JsonItemsLen(_, _)
\* bytes of the items "key": value of keys n..9, joined by ", "
JsonItemsLen(d, n) ==
    IF n > Len(Keys) THEN 0
    ELSE (2 + Len(Keys[n])) + 2 + JsonValueLen(d[Keys[n]])
         + (IF n < Len(Keys) THEN 2 + JsonItemsLen(d, n + 1) ELSE 0)

calculate_data_size(d) == 2 + JsonItemsLen(d, 1)

---------------------------------------------------------------------------
(* generate_data: the field sampler (lines 35-57) *)

ActivityLevels ==
    { <<"S", "e", "d", "e", "n", "t", "a", "r", "y">>,
      <<"L", "i", "g", "h", "t">>,
      <<"M", "o", "d", "e", "r", "a", "t", "e">>,
      <<"I", "n", "t", "e", "n", "s", "e">> }

\* round(x, 1) of a float drawn in [36.5, 37.5], given in tenths
FloatStr(tenths) == Digits(tenths \div 10) \o <<".">> \o Digits(tenths % 10)

\* The payload built from one set of draws p.
SamplePayload(p) ==
    [ k \in KeySet |->
        CASE k = "heart_rate" ->
               StrVal(Digits(p.hr) \o <<" ", "b", "p", "m">>)
          [] k = "blood_pressure" ->
               StrVal(Digits(p.sys) \o <<"/">> \o Digits(p.dia)
                      \o <<" ", "m", "m", "H", "g">>)
          [] k = "oxygen_saturation" ->
               StrVal(Digits(p.ox) \o <<"%">>)
          [] k = "respiratory_rate" ->
               StrVal(Digits(p.rr) \o <<" ", "b", "r", "e", "a", "t", "h", "s",
                                         "/", "m", "i", "n">>)
          [] k = "steps" -> IntVal(p.steps)
          [] k = "activity_level" -> StrVal(p.act)
          [] k = "sleep_duration" ->
               StrVal(Digits(p.sleep) \o <<" ", "h", "o", "u", "r", "s">>)
          [] k = "glucose_level" ->
               StrVal(Digits(p.glu) \o <<" ", "m", "g", "/", "d", "L">>)
          [] k = "temperature" ->
               StrVal(FloatStr(p.temp) \o <<"deg", "C">>) ]

\* The draws of the full sampler: every value the code's ranges allow.
AllDraws ==
    [ hr : 60..100, sys : 110..130, dia : 70..90, ox : 95..100, rr : 12..20,
      steps : StepsLo..StepsHi, act : ActivityLevels, sleep : 6..9,
      glu : 80..110, temp : 365..375 ]

\* The smallest draw of every range, with the shortest activity level.
LowDraw ==
    [ hr |-> 60, sys |-> 110, dia |-> 70, ox |-> 95, rr |-> 12,
      steps |-> StepsLo, act |-> <<"L", "i", "g", "h", "t">>, sleep |-> 6,
      glu |-> 80, temp |-> 365 ]

\* The largest draw of every range, with the longest activity level.
HighDraw ==
    [ hr |-> 100, sys |-> 130, dia |-> 90, ox |-> 100, rr |-> 20,
      steps |-> StepsHi,
      act |-> <<"S", "e", "d", "e", "n", "t", "a", "r", "y">>, sleep |-> 9,
      glu |-> 110, temp |-> 375 ]

---------------------------------------------------------------------------
(* generate_data: the shrink loop (lines 59-72) *)

\* Faulty variants of the loop condition: one byte of slack; ">=" for ">".
LoopCond_Slack(size, target) == size > target + 1

LoopCond_Inclusive(size, target) == size >= target

\* line 62: while current_size > target_size
LoopCond(size, target) == size > target

\* Faulty variant of the shrink step: a string loses two characters.
ShrinkValue_TwoChars(val) ==
    IF val.type = "str" THEN StrVal(SubSeq(val.v, 1, Len(val.v) - 2))
    ELSE IF val.type = "int" THEN IntVal(val.v - 1)
    ELSE val

\* lines 65-68: a str loses its last character ('' stays ''), an int loses 1
ShrinkValue(val) ==
    IF val.type = "str" THEN StrVal(SubSeq(val.v, 1, Len(val.v) - 1))
    ELSE IF val.type = "int" THEN IntVal(val.v - 1)
    ELSE val

\* lines 64-68 with key = k
Mutate(d, k) == [d EXCEPT ![k] = ShrinkValue(@)]

---------------------------------------------------------------------------
(* Inputs *)

Locations == {"Home", "Clinic", "Hospital"}

\* Draws of generate_device_id and random_timestamp: the ends of the ranges.
CallDraws ==
    { [dev |-> DeviceLo, d |-> 0, h |-> 0, m |-> 0, s |-> 0],
      [dev |-> DeviceHi, d |-> DaysHi, h |-> 0, m |-> 0, s |-> 0],
      [dev |-> DeviceHi, d |-> DaysHi, h |-> HoursHi, m |-> MinutesHi,
       s |-> SecondsHi] }

\* One fixed set of record-level draws, for the runs that explore the loop.
FixedCallDraws ==
    { [dev |-> DeviceLo, d |-> 0, h |-> 0, m |-> 0, s |-> 0] }

\* The wall clock, and how far it may move between two calls.
Clocks == { [sec |-> 4000000, usec |-> 250000] }

ClockSteps ==
    { [sec |-> 0, usec |-> 0], [sec |-> 0, usec |-> 300000],
      [sec |-> 0, usec |-> 750000], [sec |-> 5, usec |-> 0] }

AddTime(n, a) ==
    LET u == n.usec + a.usec
    IN  [sec |-> n.sec + a.sec + (u \div 1000000), usec |-> u % 1000000]

\* Encoded size of the payload the loop runs start from.
LowSize == calculate_data_size(SamplePayload(LowDraw))

\* Record indices: the padding fills the width, and overflows it.
Indices == {1, 100000}

\* How far below the sampled size the payload target lies (negative: above).
Gaps == {-1, 0, 1, MaxGap}

\* generate_record(i, T) calls of the loop runs: index 1 with every gap,
\* the wide index with the small ones.
LoopCalls ==
    { [i |-> 1, T |-> LowSize - g + Len(generate_patient_id(1))] : g \in Gaps }
    \cup { [i |-> 100000, T |-> LowSize - g + Len(generate_patient_id(100000))] :
             g \in {-1, 0, 1} }

\* Targets no payload can meet (7, 190), and one met after one iteration.
SmallTargets == {7, 190, LowSize + 5}

\* The keys drawn by the runs whose target cannot be met.
FewKeys == {"heart_rate", "oxygen_saturation", "temperature"}

\* Targets of the replayed calls: the loop runs once, or not at all.
ReplayTargets == {LowSize + 6, DefaultTarget}

\* Payload draws of the replayed calls: same sizes, different digits.
ReplayDraws == {LowDraw, [LowDraw EXCEPT !.hr = 99, !.glu = 99]}

---------------------------------------------------------------------------
(* State *)

NoRecord == <<>>

\* The locals of a generate_record call that has not started.
Unset ==
    /\ patient_id = <<>>
    /\ device_id = <<>>
    /\ delta = 0
    /\ timestamp = 0
    /\ target_size = 0
    /\ data = <<>>
    /\ sampled = <<>>
    /\ current_size = 0
    /\ record = NoRecord

\* The call has returned to its caller: its locals are gone.
ResetLocals ==
    /\ patient_id' = <<>>
    /\ device_id' = <<>>
    /\ delta' = 0
    /\ timestamp' = 0
    /\ target_size' = 0
    /\ data' = <<>>
    /\ sampled' = <<>>
    /\ current_size' = 0
    /\ record' = NoRecord

---------------------------------------------------------------------------
(* generate_record (lines 74-82) and generate_data (lines 33-72), step by  *)
(* step.  The draws are parameters; tape and reads are left to the         *)
(* specifications.                                                         *)

\* lines 75-79: patient_id, device_id, timestamp, and the argument of
\* generate_data; c holds the draws, the clock is read once.
GenerateRecordCall(c) ==
    /\ pc = "call"
    /\ patient_id' = generate_patient_id(idx)
    /\ device_id' = generate_device_id(c.dev)
    /\ delta' = timedelta(c.d, c.h, c.m, c.s)
    /\ timestamp' = random_timestamp(now, delta')
    /\ target_size' = T - Len(generate_patient_id(idx))
    /\ pc' = "sample"
    /\ UNCHANGED <<now, data, sampled, current_size, record, idx, T,
                   num_records, records, call>>

\* lines 35-60: sample the payload and measure it
Sample(p) ==
    /\ pc = "sample"
    /\ p \in AllDraws
    /\ data' = SamplePayload(p)
    /\ sampled' = data'
    /\ current_size' = calculate_data_size(data')
    /\ pc' = "test"
    /\ UNCHANGED <<patient_id, device_id, now, delta, timestamp, target_size,
                   record, idx, T, num_records, records, call>>

\* line 62, condition true: enter the body
LoopEnter ==
    /\ pc = "test"
    /\ LoopCond(current_size, target_size)
    /\ pc' = "body"
    /\ UNCHANGED <<patient_id, device_id, now, delta, timestamp, target_size,
                   data, sampled, current_size, record, idx, T, num_records,
                   records, call>>

\* lines 64-70 with random.choice(list(data.keys())) = k; the guard on steps
\* is the model's cap, the code has none
LoopBody(k) ==
    /\ pc = "body"
    /\ data[k].type = "int" => data[k].v > -NegCap
    /\ data' = Mutate(data, k)
    /\ current_size' = calculate_data_size(data')
    /\ pc' = "test"
    /\ UNCHANGED <<patient_id, device_id, now, delta, timestamp, target_size,
                   sampled, record, idx, T, num_records, records, call>>

\* line 62, condition false: line 72 returns data, lines 80-82 draw the
\* location and return the record
ReturnRecord(loc) ==
    /\ pc = "test"
    /\ ~LoopCond(current_size, target_size)
    /\ record' = << [ patient_id |-> patient_id, device_id |-> device_id,
                      timestamp |-> timestamp, data |-> data,
                      location |-> loc ] >>
    /\ pc' = "done"
    /\ UNCHANGED <<patient_id, device_id, now, delta, timestamp, target_size,
                   data, sampled, current_size, idx, T, num_records, records,
                   call>>

---------------------------------------------------------------------------
(* Spec: one call generate_record(idx, T) with the target near the size of *)
(* the sampled payload; every selection of the loop is explored.           *)

Init ==
    /\ pc = "call"
    /\ \E c \in LoopCalls : idx = c.i /\ T = c.T
    /\ now \in Clocks
    /\ num_records = 1
    /\ records = <<>>
    /\ call = 1
    /\ tape = <<>>
    /\ reads = <<>>
    /\ Unset

Call == \E c \in FixedCallDraws : GenerateRecordCall(c) /\ UNCHANGED <<tape, reads>>

SampleLow == Sample(LowDraw) /\ UNCHANGED <<tape, reads>>

Enter == LoopEnter /\ UNCHANGED <<tape, reads>>

Shrink == \E k \in KeySet : LoopBody(k) /\ UNCHANGED <<tape, reads>>

Return == ReturnRecord("Home") /\ UNCHANGED <<tape, reads>>

Next == Call \/ SampleLow \/ Enter \/ Shrink \/ Return

Spec == Init /\ [][Next]_vars

\* The interpreter keeps running the loop: a step that can be taken is taken.
FairSpec == Init /\ [][Next]_vars /\ WF_vars(Next)

---------------------------------------------------------------------------
(* UnsatSpec: calls whose target lies below every size the loop can reach  *)
(* (and one it reaches), the loop drawing from three of the nine keys.     *)

UnsatInit ==
    /\ pc = "call"
    /\ idx \in Indices
    /\ T \in SmallTargets
    /\ now \in Clocks
    /\ num_records = 1
    /\ records = <<>>
    /\ call = 1
    /\ tape = <<>>
    /\ reads = <<>>
    /\ Unset

ShrinkFew == \E k \in FewKeys : LoopBody(k) /\ UNCHANGED <<tape, reads>>

UnsatNext == Call \/ SampleLow \/ Enter \/ ShrinkFew \/ Return

UnsatSpec == UnsatInit /\ [][UnsatNext]_vars /\ WF_vars(UnsatNext)

---------------------------------------------------------------------------
(* MainSpec: main (lines 94-96), generate_record(i) with the default       *)
(* target.  Every sampled payload is far below the default target, so      *)
(* line 62 is false at once (MainLoopNeverEntered) and the body has no     *)
(* step here.                                                              *)

MainInit ==
    /\ pc = "main"
    /\ idx = 1
    /\ T = DefaultTarget
    /\ num_records \in 0..MaxRecords
    /\ records = <<>>
    /\ now \in Clocks
    /\ call = 1
    /\ tape = <<>>
    /\ reads = <<>>
    /\ Unset

\* line 95-96: the next i of range(1, num_records + 1), generate_record(i)
MainLoop ==
    /\ pc = "main"
    /\ idx <= num_records
    /\ pc' = "call"
    /\ UNCHANGED <<idx, T, patient_id, device_id, now, delta, timestamp,
                   target_size, data, sampled, current_size, record,
                   num_records, records, call, tape, reads>>

MainCall == \E c \in CallDraws : GenerateRecordCall(c) /\ UNCHANGED <<tape, reads>>

MainSample == \E p \in {LowDraw, HighDraw} : Sample(p) /\ UNCHANGED <<tape, reads>>

MainReturn == \E loc \in Locations : ReturnRecord(loc) /\ UNCHANGED <<tape, reads>>

\* line 96: records.append(...); the call's locals are gone, time has passed
MainAppend ==
    /\ pc = "done"
    /\ records' = Append(records, record[1])
    /\ idx' = idx + 1
    /\ pc' = "main"
    /\ now' = AddTime(now, [sec |-> 0, usec |-> 750000])
    /\ ResetLocals
    /\ UNCHANGED <<T, num_records, call, tape, reads>>

\* the range is exhausted: lines 98-102 write the file
MainExit ==
    /\ pc = "main"
    /\ idx > num_records
    /\ pc' = "exit"
    /\ UNCHANGED <<idx, T, patient_id, device_id, now, delta, timestamp,
                   target_size, data, sampled, current_size, record,
                   num_records, records, call, tape, reads>>

MainNext == MainLoop \/ MainCall \/ MainSample \/ MainReturn \/ MainAppend \/ MainExit

MainSpec == MainInit /\ [][MainNext]_vars

\* Under MainSpec the loop condition is false whenever it is evaluated.
MainLoopNeverEntered ==
    pc = "test" => ~LoopCond(current_size, target_size)

---------------------------------------------------------------------------
(* ReplaySpec: generate_record(idx, T) called twice with the random source *)
(* seeded alike.  The first call records its draws on the tape, the second *)
(* takes them from the tape; the clock moves between the calls.            *)

ReplayInit ==
    /\ pc = "call"
    /\ idx \in Indices
    /\ T \in ReplayTargets
    /\ now \in Clocks
    /\ num_records = 2
    /\ records = <<>>
    /\ call = 1
    /\ tape = <<>>
    /\ reads = <<>>
    /\ Unset

\* The values a draw from S may give: any in the first call, the next one
\* of the tape in the second.
DrawFrom(S) ==
    IF call = 1 THEN S
    ELSE IF tape # <<>> THEN {Head(tape)} ELSE {}

\* The tape after the draw x: recorded in the first call, consumed in the
\* second.
TapeAfter(x) == IF call = 1 THEN Append(tape, x) ELSE Tail(tape)

ReplayCall ==
    \E c \in DrawFrom(CallDraws) :
        GenerateRecordCall(c) /\ tape' = TapeAfter(c) /\ reads' = Append(reads, now)

ReplaySample ==
    \E p \in DrawFrom(ReplayDraws) :
        Sample(p) /\ tape' = TapeAfter(p) /\ UNCHANGED reads

ReplayEnter == LoopEnter /\ UNCHANGED <<tape, reads>>

ReplayShrink ==
    \E k \in DrawFrom(KeySet) :
        LoopBody(k) /\ tape' = TapeAfter(k) /\ UNCHANGED reads

ReplayReturn ==
    \E loc \in DrawFrom(Locations) :
        ReturnRecord(loc) /\ tape' = TapeAfter(loc) /\ UNCHANGED reads

\* the first call has returned: keep its record, reseed, call again later
Reseed ==
    /\ pc = "done"
    /\ call = 1
    /\ records' = Append(records, record[1])
    /\ call' = 2
    /\ \E a \in ClockSteps : now' = AddTime(now, a)
    /\ pc' = "call"
    /\ ResetLocals
    /\ UNCHANGED <<idx, T, num_records, tape, reads>>

\* the second call has returned
Finish ==
    /\ pc = "done"
    /\ call = 2
    /\ records' = Append(records, record[1])
    /\ pc' = "finished"
    /\ UNCHANGED <<idx, T, patient_id, device_id, now, delta, timestamp,
                   target_size, data, sampled, current_size, record,
                   num_records, call, tape, reads>>

ReplayNext ==
    ReplayCall \/ ReplaySample \/ ReplayEnter \/ ReplayShrink \/ ReplayReturn
    \/ Reseed \/ Finish

ReplaySpec == ReplayInit /\ [][ReplayNext]_vars

---------------------------------------------------------------------------
(* Properties of the shrink loop: Spec, FairSpec, UnsatSpec *)

\* Smallest size the shrink operations can reach with steps kept at 0 or
\* above: every string empty, steps one digit.
MinAchievableSize ==
    calculate_data_size([k \in KeySet |->
        IF k = "steps" THEN IntVal(0) ELSE StrVal(<<>>)])

\* C1: whenever generate_data returns, the size of the payload is at most
\* target_size, and the payload of the record generate_record(i, T) returns
\* is at most T minus the byte length of its patient_id.
C1_SizeWithinTarget ==
    pc = "done" =>
        /\ calculate_data_size(data) <= target_size
        /\ calculate_data_size(record[1].data) <= T - Len(record[1].patient_id)

\* A record is returned after the loop has shortened the payload.
C1_Witness ==
    /\ pc = "done"
    /\ record[1].data # sampled
    /\ calculate_data_size(record[1].data) <= T - Len(record[1].patient_id)

\* C2: with a target at or above the minimum achievable size the loop ends,
\* whatever fields are selected.
C2_LoopTerminates ==
    (pc = "test" /\ target_size >= MinAchievableSize) ~> (pc = "done")

\* C3: with a target below the minimum achievable size the call ends by
\* raising SizeConstraintUnsatisfiable; it neither loops forever nor returns
\* a record.
C3_UnsatisfiableRaised ==
    (pc = "test" /\ target_size < MinAchievableSize) ~> (pc = "raised")

\* C4: no field of a returned payload is negative.
C4_NoNegativeField ==
    pc = "done" => \A k \in KeySet : data[k].type = "int" => data[k].v >= 0

\* C5: a sampled payload that already fits is returned as sampled, and the
\* loop body is never entered.
C5_Idempotent ==
    (pc \in {"test", "body", "done"}
       /\ calculate_data_size(sampled) <= target_size)
    => /\ pc # "body"
       /\ data = sampled
       /\ pc = "done" => record[1].data = sampled

\* A payload whose size equals the target exactly is returned untouched.
C5_Witness ==
    /\ pc = "done"
    /\ calculate_data_size(sampled) = target_size
    /\ record[1].data = sampled

\* What one iteration may do when it selected the field k.
FrameOf(k) ==
    /\ DOMAIN data' = KeySet
    /\ \A j \in KeySet \ {k} : data'[j] = data[j]
    /\ data'[k].type = data[k].type
    /\ data[k].type = "str" =>
         /\ Len(data[k].v) > 0 =>
              /\ Len(data'[k].v) = Len(data[k].v) - 1
              /\ \A n \in 1..Len(data'[k].v) : data'[k].v[n] = data[k].v[n]
         /\ Len(data[k].v) = 0 => data'[k].v = <<>>
    /\ data[k].type = "int" => data'[k].v = data[k].v - 1

\* C9: an iteration changes only the field it selected: a string loses its
\* last character (an empty one stays empty), an integer loses one; the key
\* set and the types stay.
C9_Frame == [][pc = "body" => \E k \in KeySet : FrameOf(k)]_vars

\* The loop has emptied a string, selected it again, and decremented steps.
C9_Witness ==
    /\ pc = "test"
    /\ data["oxygen_saturation"].v = <<>>
    /\ data["steps"].v = sampled["steps"].v - 1

\* C10: the size never grows from one iteration to the next.
C10_SizeNeverIncreases ==
    [][pc = "body" => calculate_data_size(data') <= calculate_data_size(data)]_vars

---------------------------------------------------------------------------
(* Properties of the record: MainSpec, ReplaySpec *)

ThirtyDays == DaysHi * 86400

\* C6: the timestamp lies in [now - 30 days, now]: the subtracted delta is
\* between 0 seconds and exactly 30 days.
C6_TimestampWithin30Days ==
    pc \in {"sample", "test", "done"} =>
        /\ 0 <= delta /\ delta <= ThirtyDays
        /\ now.sec - ThirtyDays <= timestamp /\ timestamp <= now.sec

DigitValue(c) == CHOOSE d \in 0..9 : DigitChars[d + 1] = c

RECURSIVE DecimalValue(_)
\* the number a sequence of digits spells
DecimalValue(s) ==
    IF s = <<>> THEN 0
    ELSE 10 * DecimalValue(SubSeq(s, 1, Len(s) - 1)) + DigitValue(s[Len(s)])

\* C7: the k-th record of the batch has patient_id "P" followed by k
\* zero-padded to five digits; the identifiers are pairwise distinct.
C7_PatientIds ==
    /\ \A k \in 1..Len(records) :
         LET id == records[k].patient_id
         IN  /\ Len(id) = 1 + PadWidth
             /\ id[1] = "P"
             /\ \A n \in 2..Len(id) : \E d \in 1..10 : id[n] = DigitChars[d]
             /\ DecimalValue(Tail(id)) = k
    /\ \A j, k \in 1..Len(records) :
         j # k => records[j].patient_id # records[k].patient_id

\* main has written a batch of at least two records.
C7_Witness ==
    /\ pc = "exit"
    /\ Len(records) >= 2
    /\ records[2].patient_id = <<"P", "0", "0", "0", "0", "2">>

\* C8 as claimed: the two seeded calls return identical records, whatever
\* the clock read.
C8_SameSeedSameRecord ==
    pc = "finished" => records[1] = records[2]

\* C8 amended: the two records agree in patient_id, device_id, data and
\* location, and their timestamps differ by the whole seconds between the
\* two clock readings (none when both calls read the same second).
C8_SameSeedSameButClock ==
    pc = "finished" =>
        /\ records[1].patient_id = records[2].patient_id
        /\ records[1].device_id = records[2].device_id
        /\ records[1].data = records[2].data
        /\ records[1].location = records[2].location
        /\ records[2].timestamp - records[1].timestamp
             = reads[2].sec - reads[1].sec

\* Both calls shortened the payload, drew a non-zero delta and read the
\* clock in different microseconds of the same second.
C8_Witness ==
    /\ pc = "finished"
    /\ records[1].data # SamplePayload(LowDraw)
    /\ records[1].data["heart_rate"].v # <<"6", "0", " ", "b", "p", "m">>
    /\ reads[1].sec = reads[2].sec
    /\ reads[1].usec # reads[2].usec
    /\ records[1].timestamp = records[2].timestamp
    /\ records[1].timestamp # reads[1].sec

===========================================================================
